---- MODULE Spec2Model ----
(***************************************************************************)
(* Model of backend/app.py: the in-memory TF-IDF page index over the three *)
(* configured PDFs (build_index), the /api/search and /api/health handlers *)
(* and synthesize_summary.                                                 *)
(*                                                                         *)
(* Strings are sequences of one-character strings, so that strip(),        *)
(* split(), join() and the slices of the code are computed, not assumed.   *)
(* The weights of the scikit-learn matrix are abstracted: a matrix row is  *)
(* the set of vocabulary terms of its page, and the cosine similarities of *)
(* a query are any integers 0..RawMax that respect what the cosine of two  *)
(* TF-IDF vectors guarantees (0 exactly when no vocabulary term is shared, *)
(* equal rows score equally).                                              *)
(*                                                                         *)
(* Spec runs the calls one at a time: build_index, api_search and health   *)
(* each as one step. SpecConc runs build_index line by line in a rebuild   *)
(* thread beside a request thread.                                         *)
(***************************************************************************)
EXTENDS Integers, Sequences, FiniteSets, TLC

VARIABLES
    pages_data,      \* global list of {doc_key, page_no, text}
    doc_page_index,  \* global dict doc_key -> list of positions, as its items in insertion order
    vectorizer,      \* global TfidfVectorizer: undefined, unfitted or fitted with a vocabulary
    tfidf_matrix,    \* global matrix: undefined (never assigned), None, or its rows
    site,            \* the PDF files build_index last found on disk
    built,           \* how the last build_index call ended: "never", "returned", "raised"
    request,         \* the JSON body of the request being answered
    response,        \* the response being sent for it
    bpc, b_site, b_doc, b_pages, b_page, b_indices, all_texts,  \* a build_index call line by line
    b_calls,         \* the build_index calls the rebuild thread has made
    spc, s_data, s_sims      \* an api_search call: its place, its request, its cosine_similarities

shared == <<pages_data, doc_page_index, vectorizer, tfidf_matrix>>
builder == <<bpc, b_site, b_doc, b_pages, b_page, b_indices, all_texts, b_calls>>
searcher == <<spc, s_data, s_sims>>
vars == <<pages_data, doc_page_index, vectorizer, tfidf_matrix, site, built,
          request, response, bpc, b_site, b_doc, b_pages, b_page, b_indices,
          all_texts, b_calls, spc, s_data, s_sims>>

----------------------------------------------------------------------------
(* Bounds of the model *)

\* pages in all the PDFs of a site together
MaxPages == 2
\* largest magnitude of an integer top_k a request carries
MaxTopK == 2
\* build_index calls of the rebuild thread in the threaded runs
MaxBuilds == 2
\* largest cosine similarity of the model, in units of 0.00005
RawMax == 3

(* Program constants *)
TOP_K == 3
\* max_df = 0.9, as a percentage
MAX_DF_PERCENT == 90
\* min_df of TfidfVectorizer (its default)
MIN_DF == 1
SNIPPET_CAP == 600
SUMMARY_CAP == 200
\* tokens of synthesize_summary are longer than this
MIN_TOKEN_LEN == 2

\* PDF_FILES, in the insertion order of the dict
DocKeys == <<"PMBOK", "PRINCE2", "ISO21500">>
DocSet == {DocKeys[i] : i \in 1..Len(DocKeys)}
PDF_FILES == [d \in DocSet |->
    CASE d = "PMBOK" -> "PMBOK7.pdf"
      [] d = "PRINCE2" -> "PRINCE2.pdf"
      [] d = "ISO21500" -> "ISO21500.pdf"]

----------------------------------------------------------------------------
(* Strings *)

Min(a, b) == IF a < b THEN a ELSE b
Max(a, b) == IF a > b THEN a ELSE b

Whitespace == {" "}

\* str.strip(): leading and trailing whitespace removed
RECURSIVE LStrip(_)
LStrip(s) == IF s # <<>> /\ Head(s) \in Whitespace THEN LStrip(Tail(s)) ELSE s
RECURSIVE RStrip(_)
RStrip(s) ==
    IF s # <<>> /\ s[Len(s)] \in Whitespace THEN RStrip(SubSeq(s, 1, Len(s) - 1)) ELSE s
Strip(s) == RStrip(LStrip(s))

\* the maximal runs of characters outside seps, in order; cur is the run being read
RECURSIVE Runs(_, _, _)
Runs(s, seps, cur) ==
    IF s = <<>> THEN (IF cur = <<>> THEN <<>> ELSE <<cur>>)
    ELSE IF Head(s) \in seps
         THEN (IF cur = <<>> THEN <<>> ELSE <<cur>>) \o Runs(Tail(s), seps, <<>>)
         ELSE Runs(Tail(s), seps, Append(cur, Head(s)))

\* str.split(): the whitespace-separated words
Split(s) == Runs(s, Whitespace, <<>>)

\* " ".join(words)
RECURSIVE Join(_)
Join(words) ==
    IF words = <<>> THEN <<>>
    ELSE IF Len(words) = 1 THEN words[1]
    ELSE words[1] \o <<" ">> \o Join(Tail(words))

\* str.lower(), on the letters the model's texts use
ToLower == ("R" :> "r") @@ ("P" :> "p")
Lower(s) == [i \in 1..Len(s) |-> IF s[i] \in DOMAIN ToLower THEN ToLower[s[i]] ELSE s[i]]

\* str.strip(chars)
RECURSIVE LStripChars(_, _)
LStripChars(s, cs) == IF s # <<>> /\ Head(s) \in cs THEN LStripChars(Tail(s), cs) ELSE s
RECURSIVE RStripChars(_, _)
RStripChars(s, cs) ==
    IF s # <<>> /\ s[Len(s)] \in cs THEN RStripChars(SubSeq(s, 1, Len(s) - 1), cs) ELSE s
StripChars(s, cs) == RStripChars(LStripChars(s, cs), cs)

\* s[:cap] + "..." if len(s) > cap else s
Ellipsis == <<".", ".", ".">>
Truncate(s, cap) == IF Len(s) > cap THEN SubSeq(s, 1, cap) \o Ellipsis ELSE s

\* seq[:k] of Python, k any integer
PySlice(seq, k) ==
    IF k >= 0 THEN SubSeq(seq, 1, Min(k, Len(seq)))
    ELSE SubSeq(seq, 1, Max(Len(seq) + k, 0))

\* seq[::-1]
Reverse(seq) == [i \in 1..Len(seq) |-> seq[Len(seq) + 1 - i]]

Range(f) == {f[i] : i \in DOMAIN f}

----------------------------------------------------------------------------
(* The PDF folder *)

\* what PdfReader gives for one page: extract_text() raises, or returns a text
Raised == [raises |-> TRUE, text |-> <<>>]
Text(t) == [raises |-> FALSE, text |-> t]
RawPages ==
    { Raised,
      Text(<<"r", "i", "s", "k", " ">>),
      Text(<<"P", "l", "a", "n", " ", " ", "r", "i", "s", "k", ".">>) }

RECURSIVE SeqsUpTo(_, _)
SeqsUpTo(set, n) ==
    IF n = 0 THEN {<<>>}
    ELSE LET shorter == SeqsUpTo(set, n - 1)
         IN shorter \cup {Append(q, x) : q \in {r \in shorter : Len(r) = n - 1}, x \in set}

Missing == [exists |-> FALSE, pages |-> <<>>]
Files == {Missing} \cup {[exists |-> TRUE, pages |-> p] : p \in SeqsUpTo(RawPages, MaxPages)}

RECURSIVE SumPages(_, _)
SumPages(s, d) == IF d = 0 THEN 0 ELSE Len(s[DocKeys[d]].pages) + SumPages(s, d - 1)

\* the states of the site folder: each configured PDF missing or present with its pages
Sites == {s \in [DocSet -> Files] : SumPages(s, Len(DocKeys)) <= MaxPages}
NoSite == [d \in DocSet |-> Missing]

----------------------------------------------------------------------------
(* extract_pages_text *)

\* text = page.extract_text() or "", "" when it raises; then " ".join(text.split())
PageText(raw) == Join(Split(IF raw.raises THEN <<>> ELSE raw.text))

extract_pages_text(pdf) == [i \in 1..Len(pdf.pages) |-> <<i, PageText(pdf.pages[i])>>]

----------------------------------------------------------------------------
(* TfidfVectorizer(stop_words="english", max_df=0.9) *)

NO_TEXT == <<"[", "n", "o", "-", "t", "e", "x", "t", "-", "o", "n", "-", "p", "a", "g", "e", "]">>

\* the words of the English stop list that the model's texts can contain
ENGLISH_STOP_WORDS == { <<"n", "o">>, <<"o", "n">>, <<"o", "f">>, <<"t", "h", "e">> }

\* the characters of the model's texts that are not \w
NonWord == {" ", "[", "]", "-", ".", ",", "(", ")"}

\* the analyzer: lowercase, tokens of two or more word characters, stop words removed
Analyze(text) ==
    {w \in Range(Runs(Lower(text), NonWord, <<>>)) : Len(w) >= 2 /\ w \notin ENGLISH_STOP_WORDS}

DocFreq(term, docs) == Cardinality({i \in 1..Len(docs) : term \in docs[i]})

\* fit_transform: raises ValueError when the texts hold no term, when max_df * n_docs
\* is below min_df, and when max_df prunes every term. A row is abstracted to the set
\* of vocabulary terms of its text.
fit_transform(texts) ==
    LET docs == [i \in 1..Len(texts) |-> Analyze(texts[i])]
        n == Len(texts)
        seen == UNION Range(docs)
        vocabulary == {t \in seen : 100 * DocFreq(t, docs) <= MAX_DF_PERCENT * n
                                    /\ DocFreq(t, docs) >= MIN_DF}
    IN IF seen = {} \/ MAX_DF_PERCENT * n < 100 * MIN_DF \/ vocabulary = {}
       THEN [raised |-> TRUE, vocabulary |-> {}, rows |-> <<>>]
       ELSE [raised |-> FALSE, vocabulary |-> vocabulary,
             rows |-> [i \in 1..n |-> docs[i] \cap vocabulary]]

\* transform([query]): the query's terms that are in the fitted vocabulary
transform(vec, query) == Analyze(query) \cap vec.vocabulary

Undefined == [kind |-> "undefined", vocabulary |-> {}, rows |-> <<>>]
Unfitted == [kind |-> "unfitted", vocabulary |-> {}, rows |-> <<>>]
Fitted(vocabulary) == [kind |-> "fitted", vocabulary |-> vocabulary, rows |-> <<>>]
None == [kind |-> "None", vocabulary |-> {}, rows |-> <<>>]
\* the matrix has a column per term of the vocabulary it was fitted with
Matrix(vocabulary, rows) == [kind |-> "matrix", vocabulary |-> vocabulary, rows |-> rows]

----------------------------------------------------------------------------
(* build_index *)

\* line 62: the entry of one page
Entry(doc_key, page) == [doc_key |-> doc_key, page_no |-> page[1], text |-> page[2]]

\* line 65: the text the vectorizer is given for a page
IndexedText(text) == IF Strip(text) # <<>> THEN text ELSE NO_TEXT

\* lines 54-66 without line 57: a missing document gets no entry
RECURSIVE CorpusLoopSkipsMissing(_, _, _, _, _)
CorpusLoopSkipsMissing(s, d, pd, dpi, texts) ==
    IF d > Len(DocKeys) THEN [pages_data |-> pd, doc_page_index |-> dpi, all_texts |-> texts]
    ELSE LET doc_key == DocKeys[d]
         IN IF ~s[doc_key].exists
            THEN CorpusLoopSkipsMissing(s, d + 1, pd, dpi, texts)
            ELSE LET pages == extract_pages_text(s[doc_key])
                     n == Len(pages)
                 IN CorpusLoopSkipsMissing(s, d + 1,
                       pd \o [i \in 1..n |-> Entry(doc_key, pages[i])],
                       Append(dpi, [key |-> doc_key,
                                    indices |-> [i \in 1..n |-> Len(pd) + i - 1]]),
                       texts \o [i \in 1..n |-> IndexedText(pages[i][2])])

\* lines 54-66 with line 63 appending len(indices): positions counted per document
RECURSIVE CorpusLoopLocalPositions(_, _, _, _, _)
CorpusLoopLocalPositions(s, d, pd, dpi, texts) ==
    IF d > Len(DocKeys) THEN [pages_data |-> pd, doc_page_index |-> dpi, all_texts |-> texts]
    ELSE LET doc_key == DocKeys[d]
         IN IF ~s[doc_key].exists
            THEN CorpusLoopLocalPositions(s, d + 1, pd,
                                          Append(dpi, [key |-> doc_key, indices |-> <<>>]), texts)
            ELSE LET pages == extract_pages_text(s[doc_key])
                     n == Len(pages)
                 IN CorpusLoopLocalPositions(s, d + 1,
                       pd \o [i \in 1..n |-> Entry(doc_key, pages[i])],
                       Append(dpi, [key |-> doc_key, indices |-> [i \in 1..n |-> i - 1]]),
                       texts \o [i \in 1..n |-> IndexedText(pages[i][2])])

\* lines 54-66 for the documents d.. of PDF_FILES, from the lists built so far
RECURSIVE CorpusLoop(_, _, _, _, _)
CorpusLoop(s, d, pd, dpi, texts) ==
    IF d > Len(DocKeys) THEN [pages_data |-> pd, doc_page_index |-> dpi, all_texts |-> texts]
    ELSE LET doc_key == DocKeys[d]
         IN IF ~s[doc_key].exists
            THEN CorpusLoop(s, d + 1, pd, Append(dpi, [key |-> doc_key, indices |-> <<>>]), texts)
            ELSE LET pages == extract_pages_text(s[doc_key])
                     n == Len(pages)
                 IN CorpusLoop(s, d + 1,
                       pd \o [i \in 1..n |-> Entry(doc_key, pages[i])],
                       Append(dpi, [key |-> doc_key,
                                    indices |-> [i \in 1..n |-> Len(pd) + i - 1]]),
                       texts \o [i \in 1..n |-> IndexedText(pages[i][2])])

\* lines 50-66
Corpus(s) == CorpusLoop(s, 1, <<>>, <<>>, <<>>)

----------------------------------------------------------------------------
(* synthesize_summary *)

Punctuation == {".", ",", "(", ")"}

\* line 149
QueryTokens(query) == {Lower(t) : t \in {w \in Range(Split(query)) : Len(w) > MIN_TOKEN_LEN}}

\* line 152
TextTokens(text) ==
    {StripChars(Lower(w), Punctuation) : w \in {x \in Range(Split(text)) : Len(x) > MIN_TOKEN_LEN}}

\* line 153
Overlap(query, text) == Cardinality(QueryTokens(query) \cap TextTokens(text))

\* sorted(items, key=score, reverse=True): stable, equal scores keep their order
RECURSIVE InsertDesc(_, _)
InsertDesc(sorted, x) ==
    IF sorted = <<>> THEN <<x>>
    ELSE IF Head(sorted).score >= x.score THEN <<Head(sorted)>> \o InsertDesc(Tail(sorted), x)
    ELSE <<x>> \o sorted
RECURSIVE SortedDesc(_)
SortedDesc(items) ==
    IF items = <<>> THEN <<>>
    ELSE InsertDesc(SortedDesc(SubSeq(items, 1, Len(items) - 1)), items[Len(items)])

\* lines 150-156: the documents of snippets_for_doc by descending overlap
Ranked(query, snippets_for_doc) ==
    SortedDesc([i \in 1..Len(snippets_for_doc) |->
                  [doc |-> snippets_for_doc[i].key,
                   score |-> Overlap(query, snippets_for_doc[i].text)]])

Line(kind, docs, text) == [kind |-> kind, docs |-> docs, text |-> text]

\* snippets_for_doc.get(doc, "")
SnippetOf(snippets_for_doc, doc) ==
    LET at == {i \in 1..Len(snippets_for_doc) : snippets_for_doc[i].key = doc}
    IN IF at = {} THEN <<>> ELSE snippets_for_doc[CHOOSE i \in at : TRUE].text

\* lines 163-167
RECURSIVE DetailLines(_, _)
DetailLines(ranked, snippets_for_doc) ==
    IF ranked = <<>> THEN <<>>
    ELSE LET snippet == SnippetOf(snippets_for_doc, Head(ranked).doc)
         IN (IF Strip(snippet) # <<>>
             THEN <<Line("detail", <<Head(ranked).doc>>, Truncate(snippet, SUMMARY_CAP))>>
             ELSE <<>>) \o DetailLines(Tail(ranked), snippets_for_doc)

\* the summary, as its lines before " ".join
synthesize_summary(query, snippets_for_doc) ==
    LET ranked == Ranked(query, snippets_for_doc)
    IN <<Line("title", <<>>, query)>>
       \o (IF ranked # <<>> /\ ranked[1].score > 0
           THEN <<Line("strongest", [i \in 1..Len(ranked) |-> ranked[i].doc], <<>>)>>
           ELSE <<Line("no dominant", <<>>, <<>>)>>)
       \o DetailLines(ranked, snippets_for_doc)
       \o <<Line("note", <<>>, <<>>)>>

----------------------------------------------------------------------------
(* api_search *)

Absent == [kind |-> "absent", int |-> 0, str |-> <<>>]
IntValue(n) == [kind |-> "int", int |-> n, str |-> <<>>]
StrValue(str) == [kind |-> "str", int |-> 0, str |-> str]

Digits == ("0" :> 0) @@ ("1" :> 1) @@ ("2" :> 2) @@ ("3" :> 3)

\* int(x) on a string of digits
RECURSIVE DigitsValue(_)
DigitsValue(str) ==
    IF str = <<>> THEN 0 ELSE 10 * DigitsValue(SubSeq(str, 1, Len(str) - 1)) + Digits[str[Len(str)]]

\* line 93: int(data.get("top_k", TOP_K)); raises ValueError on a string that is no number
TopKOf(data) ==
    CASE data.top_k.kind = "absent" -> [raised |-> FALSE, value |-> TOP_K]
      [] data.top_k.kind = "int" -> [raised |-> FALSE, value |-> data.top_k.int]
      [] data.top_k.kind = "str" ->
            LET str == Strip(data.top_k.str)
            IN IF str # <<>> /\ \A i \in 1..Len(str) : str[i] \in DOMAIN Digits
               THEN [raised |-> FALSE, value |-> DigitsValue(str)]
               ELSE [raised |-> TRUE, value |-> 0]

\* line 92: data.get("query", "").strip()
QueryOf(data) == Strip(IF data.query.kind = "str" THEN data.query.str ELSE <<>>)

\* the request bodies of the model
Queries ==
    { Absent,
      StrValue(<<" ", " ">>),
      StrValue(<<"r", "i", "s", "k">>),
      StrValue(<<" ", "P", "l", "a", "n", " ", "r", "i", "s", "k">>),
      StrValue(<<"c", "o", "s", "t">>) }
TopKs ==
    {Absent, StrValue(<<"1">>), StrValue(<<"k">>)}
    \cup {IntValue(n) : n \in (0 - MaxTopK)..MaxTopK}
Requests == [query : Queries, top_k : TopKs]


Call(route, data) == [route |-> route, data |-> data]
NoRequest == Call("", [query |-> Absent, top_k |-> Absent])

Reply(status, error, query, results, summary) ==
    [status |-> status, error |-> error, query |-> query, results |-> results,
     summary |-> summary, indexed_pages |-> 0]
NoResponse == Reply(0, "", <<>>, <<>>, <<>>)
\* jsonify({"error": ...}), status
ErrorReply(status, error) == Reply(status, error, <<>>, <<>>, <<>>)
\* an exception no handler catches: Flask answers 500 Internal Server Error
Unhandled(exception) == Reply(500, exception, <<>>, <<>>, <<>>)

EMPTY_QUERY == "empty query"
INDEX_UNAVAILABLE == "Index not built or PDFs missing."

\* line 101: the cosine similarities a query can have with the rows of the matrix.
\* Weights are positive, so a similarity is 0 exactly when no term is shared, and
\* rows of the same terms have the same similarity.
Similarities(qvec, rows) ==
    {sims \in [1..Len(rows) -> 0..RawMax] :
        /\ \A i \in 1..Len(rows) : (sims[i] = 0) <=> (rows[i] \cap qvec = {})
        /\ \A i, j \in 1..Len(rows) : rows[i] = rows[j] => sims[i] = sims[j]}

\* round(score, 4) in units of 0.0001, of a score in units of 0.00005: half to even
Round4(raw) ==
    LET q == raw \div 2
    IN IF raw % 2 = 0 THEN q ELSE IF q % 2 = 0 THEN q ELSE q + 1

\* line 112: cosine_similarities[idxs]
Scores(indices, sims) == [j \in 1..Len(indices) |-> sims[indices[j] + 1]]

\* scores.argsort(): numpy's default sort is not stable, so any order of the
\* positions 0..n-1 that sorts the scores ascending
Argsorts(scores) ==
    LET n == Len(scores)
    IN {p \in [1..n -> 0..(n - 1)] :
          /\ \A i, j \in 1..n : i # j => p[i] # p[j]
          /\ \A i \in 1..(n - 1) : scores[p[i] + 1] <= scores[p[i + 1] + 1]}

\* line 113 without [::-1]: the lowest scores first
TopIdxOrdersAscending(scores, top_k) == {PySlice(p, top_k) : p \in Argsorts(scores)}

\* line 113
TopIdxOrders(scores, top_k) == {PySlice(Reverse(p), top_k) : p \in Argsorts(scores)}

\* lines 118-133: the item of one rank position
Item(doc_key, indices, scores, pd, rank_pos) ==
    LET page_idx == indices[rank_pos + 1]
        text == pd[page_idx + 1].text
        pno == pd[page_idx + 1].page_no
    IN [page_no |-> pno,
        score |-> Round4(scores[rank_pos + 1]),
        text_snippet |-> Truncate(text, SNIPPET_CAP),
        pdf_link |-> <<PDF_FILES[doc_key], "#page=", pno>>]

\* line 136
SnippetText(items) == Join([i \in 1..Len(items) |-> items[i].text_snippet])

\* every position of the index is a row of the similarities and an entry of pages_data
InRange(dpi, sims, pd) ==
    \A i \in 1..Len(dpi) : \A j \in 1..Len(dpi[i].indices) :
        dpi[i].indices[j] < Len(sims) /\ dpi[i].indices[j] < Len(pd)

\* the results of line 113 for every document of the index, one order per document
RECURSIVE OrderChoices(_, _, _)
OrderChoices(dpi, sims, top_k) ==
    IF dpi = <<>> THEN {<<>>}
    ELSE {<<order>> \o rest :
            order \in TopIdxOrders(Scores(Head(dpi).indices, sims), top_k),
            rest \in OrderChoices(Tail(dpi), sims, top_k)}

\* lines 106-135: results, as the items of the dict in insertion order
Results(dpi, sims, pd, orders) ==
    [i \in 1..Len(dpi) |->
        [key |-> dpi[i].key,
         items |-> IF dpi[i].indices = <<>> THEN <<>>
                   ELSE [r \in 1..Len(orders[i]) |->
                           Item(dpi[i].key, dpi[i].indices,
                                Scores(dpi[i].indices, sims), pd, orders[i][r])]]]

\* lines 104-136: snippets_for_summary has an entry for the documents that have pages
SnippetsForSummary(dpi, results) ==
    LET with_pages == SelectSeq([i \in 1..Len(dpi) |-> i], LAMBDA i : dpi[i].indices # <<>>)
    IN [n \in 1..Len(with_pages) |->
          [key |-> results[with_pages[n]].key,
           text |-> SnippetText(results[with_pages[n]].items)]]

\* lines 103-144
SearchReply(query, dpi, sims, pd, orders) ==
    LET results == Results(dpi, sims, pd, orders)
    IN Reply(200, "", query, results,
             synthesize_summary(query, SnippetsForSummary(dpi, results)))

\* lines 100-101: linear_kernel needs a query vector of as many columns as the matrix
Compatible(vec, mat) == Cardinality(vec.vocabulary) = Cardinality(mat.vocabulary)

\* lines 100-101; a matrix fitted with another vocabulary of the same size has its
\* columns under other terms, and the similarities are any
cosine_similarities(vec, mat, query) ==
    IF vec.vocabulary = mat.vocabulary
    THEN Similarities(transform(vec, query), mat.rows)
    ELSE [1..Len(mat.rows) -> 0..RawMax]

\* lines 103-144: the responses from the similarities; an index outside the
\* similarities or pages_data raises IndexError
rank(query, top_k, dpi, sims, pd) ==
    IF ~InRange(dpi, sims, pd) THEN {Unhandled("IndexError")}
    ELSE {SearchReply(query, dpi, sims, pd, orders) : orders \in OrderChoices(dpi, sims, top_k)}

\* lines 91-101: the response when the handler answers before ranking, NoResponse otherwise
early_reply(data, vec, mat) ==
    IF TopKOf(data).raised THEN Unhandled("ValueError")
    ELSE IF QueryOf(data) = <<>> THEN ErrorReply(400, EMPTY_QUERY)
    ELSE IF mat.kind = "undefined" THEN Unhandled("NameError")
    ELSE IF mat.kind = "None" THEN ErrorReply(500, INDEX_UNAVAILABLE)
    ELSE IF vec.kind # "fitted" THEN Unhandled("NotFittedError")
    ELSE IF ~Compatible(vec, mat) THEN Unhandled("ValueError")
    ELSE NoResponse

\* health: lines 80-82
health(pd) == [Reply(200, "ok", <<>>, <<>>, <<>>) EXCEPT !.indexed_pages = Len(pd)]

----------------------------------------------------------------------------
(* build_index, as one call *)

\* lines 50-70 over the files s: the corpus and the outcome of the fit
Index(s) ==
    LET corpus == Corpus(s)
    IN [site |-> s, corpus |-> corpus, fit |-> fit_transform(corpus.all_texts)]

\* the builds over every state of the site folder
Indexes == {Index(s) : s \in Sites}

\* lines 47-74: the globals after the build b; mat is tfidf_matrix before the call,
\* which stays when fit_transform raises
build_index(b, mat) ==
    [pages_data |-> b.corpus.pages_data,
     doc_page_index |-> b.corpus.doc_page_index,
     vectorizer |-> IF b.corpus.all_texts # <<>> /\ ~b.fit.raised
                    THEN Fitted(b.fit.vocabulary) ELSE Unfitted,
     tfidf_matrix |-> IF b.corpus.all_texts = <<>> THEN None
                      ELSE IF b.fit.raised THEN mat ELSE Matrix(b.fit.vocabulary, b.fit.rows),
     built |-> IF b.corpus.all_texts # <<>> /\ b.fit.raised THEN "raised" ELSE "returned"]

----------------------------------------------------------------------------
(* The process, one call at a time *)

Init ==
    /\ pages_data = <<>>
    /\ doc_page_index = <<>>
    /\ vectorizer = Undefined
    /\ tfidf_matrix = Undefined
    /\ site = NoSite
    /\ built = "never"
    /\ request = NoRequest
    /\ response = NoResponse
    /\ bpc = "idle" /\ b_site = NoSite /\ b_doc = 0 /\ b_pages = <<>> /\ b_page = 0
    /\ b_indices = <<>> /\ all_texts = <<>> /\ b_calls = 0
    /\ spc = "idle" /\ s_data = NoRequest.data /\ s_sims = <<>>

\* an exception that leaves build_index is caught nowhere (line 177): the process ends
Running == built # "raised"

\* a handler that empties pages_data
HandlerClearsPages ==
    /\ pages_data' = <<>>
    /\ UNCHANGED <<doc_page_index, vectorizer, tfidf_matrix>>

\* what a request handler writes to the globals: nothing (lines 80-144 assign none)
HandlerWrites == UNCHANGED shared

BuildIndex ==
    /\ Running /\ response = NoResponse
    /\ \E b \in Indexes :
         LET new == build_index(b, tfidf_matrix)
         IN /\ pages_data' = new.pages_data
            /\ doc_page_index' = new.doc_page_index
            /\ vectorizer' = new.vectorizer
            /\ tfidf_matrix' = new.tfidf_matrix
            /\ built' = new.built
            /\ site' = b.site
    /\ UNCHANGED <<request, response, builder, searcher>>

ApiSearch ==
    /\ Running /\ response = NoResponse
    /\ \E data \in Requests :
         /\ request' = Call("/api/search", data)
         /\ IF early_reply(data, vectorizer, tfidf_matrix) # NoResponse
            THEN /\ response' = early_reply(data, vectorizer, tfidf_matrix)
                 /\ UNCHANGED s_sims
            ELSE /\ s_sims' \in cosine_similarities(vectorizer, tfidf_matrix, QueryOf(data))
                 /\ response' \in rank(QueryOf(data), TopKOf(data).value, doc_page_index,
                                       s_sims', pages_data)
    /\ HandlerWrites
    /\ UNCHANGED <<site, built, builder, spc, s_data>>

Health ==
    /\ Running /\ response = NoResponse
    /\ request' = Call("/api/health", NoRequest.data)
    /\ response' = health(pages_data)
    /\ HandlerWrites
    /\ UNCHANGED <<site, built, builder, searcher>>

\* the response is sent and the request is over
Send ==
    /\ response # NoResponse
    /\ request' = NoRequest
    /\ response' = NoResponse
    /\ s_sims' = <<>>
    /\ UNCHANGED <<shared, site, built, builder, spc, s_data>>

Next == BuildIndex \/ ApiSearch \/ Health \/ Send

Spec == Init /\ [][Next]_vars

----------------------------------------------------------------------------
(* The process with a rebuild running beside a request thread: build_index  *)
(* line by line, api_search in the steps between which it reads the globals *)

\* the site folders and requests of the threaded runs
ConcPages == {Raised, Text(<<"r", "i", "s", "k", " ">>)}
ConcSites == {s \in Sites : \A d \in DocSet : Range(s[d].pages) \subseteq ConcPages}
ConcRequests ==
    {data \in Requests :
        data.top_k = Absent /\ data.query \in {Absent, StrValue(<<"r", "i", "s", "k">>)}}

\* build_index is left: its locals are gone
BuildReturns(how) ==
    /\ built' = how /\ site' = b_site /\ bpc' = "idle"
    /\ b_site' = NoSite /\ b_doc' = 0 /\ all_texts' = <<>>

\* line 50
BuildLine50 ==
    /\ Running /\ bpc = "idle" /\ b_calls < MaxBuilds
    /\ \E s \in ConcSites : b_site' = s
    /\ b_calls' = b_calls + 1
    /\ pages_data' = <<>>
    /\ bpc' = "l51"
    /\ UNCHANGED <<doc_page_index, vectorizer, tfidf_matrix, site, built, request, response,
                   b_doc, b_pages, b_page, b_indices, all_texts, searcher>>

\* lines 51-52
BuildLine51 ==
    /\ Running /\ bpc = "l51"
    /\ doc_page_index' = <<>>
    /\ all_texts' = <<>>
    /\ b_doc' = 1
    /\ bpc' = "l54"
    /\ UNCHANGED <<pages_data, vectorizer, tfidf_matrix, site, built, request, response,
                   b_site, b_pages, b_page, b_indices, b_calls, searcher>>

\* lines 54-60: the next document of PDF_FILES
BuildDoc ==
    /\ Running /\ bpc = "l54"
    /\ IF b_doc > Len(DocKeys)
       THEN /\ bpc' = "l68"
            /\ UNCHANGED <<doc_page_index, b_doc, b_pages, b_page, b_indices>>
       ELSE IF ~b_site[DocKeys[b_doc]].exists
       THEN /\ doc_page_index' = Append(doc_page_index, [key |-> DocKeys[b_doc], indices |-> <<>>])
            /\ b_doc' = b_doc + 1
            /\ UNCHANGED <<bpc, b_pages, b_page, b_indices>>
       ELSE /\ b_pages' = extract_pages_text(b_site[DocKeys[b_doc]])
            /\ b_indices' = <<>>
            /\ b_page' = 1
            /\ bpc' = "l61"
            /\ UNCHANGED <<doc_page_index, b_doc>>
    /\ UNCHANGED <<pages_data, vectorizer, tfidf_matrix, site, built, request, response,
                   b_site, all_texts, b_calls, searcher>>

\* lines 61-66: the next page of the document
BuildPage ==
    /\ Running /\ bpc = "l61"
    /\ IF b_page > Len(b_pages)
       THEN /\ doc_page_index' = Append(doc_page_index,
                                        [key |-> DocKeys[b_doc], indices |-> b_indices])
            /\ b_doc' = b_doc + 1
            /\ bpc' = "l54"
            /\ b_pages' = <<>> /\ b_page' = 0 /\ b_indices' = <<>>
            /\ UNCHANGED <<pages_data, all_texts>>
       ELSE /\ b_indices' = Append(b_indices, Len(pages_data))
            /\ pages_data' = Append(pages_data, Entry(DocKeys[b_doc], b_pages[b_page]))
            /\ all_texts' = Append(all_texts, IndexedText(b_pages[b_page][2]))
            /\ b_page' = b_page + 1
            /\ UNCHANGED <<doc_page_index, b_doc, bpc, b_pages>>
    /\ UNCHANGED <<vectorizer, tfidf_matrix, site, built, request, response,
                   b_site, b_calls, searcher>>

\* line 68
BuildLine68 ==
    /\ Running /\ bpc = "l68"
    /\ vectorizer' = Unfitted
    /\ bpc' = "l69"
    /\ UNCHANGED <<pages_data, doc_page_index, tfidf_matrix, site, built, request, response,
                   b_site, b_doc, b_pages, b_page, b_indices, all_texts, b_calls, searcher>>

\* lines 69-72, up to the fit: fit_transform fits the vectorizer the global names, or raises
BuildFit ==
    /\ Running /\ bpc = "l69"
    /\ IF all_texts = <<>>
       THEN /\ tfidf_matrix' = None
            /\ BuildReturns("returned")
            /\ UNCHANGED vectorizer
       ELSE IF fit_transform(all_texts).raised
       THEN /\ BuildReturns("raised")
            /\ UNCHANGED <<vectorizer, tfidf_matrix>>
       ELSE /\ vectorizer' = Fitted(fit_transform(all_texts).vocabulary)
            /\ bpc' = "l70"
            /\ UNCHANGED <<tfidf_matrix, built, site, b_site, b_doc, all_texts>>
    /\ UNCHANGED <<pages_data, doc_page_index, request, response,
                   b_pages, b_page, b_indices, b_calls, searcher>>

\* line 70: the matrix is stored in the global, and build_index returns
BuildStore ==
    /\ Running /\ bpc = "l70"
    /\ tfidf_matrix' = Matrix(fit_transform(all_texts).vocabulary, fit_transform(all_texts).rows)
    /\ BuildReturns("returned")
    /\ UNCHANGED <<pages_data, doc_page_index, vectorizer, request, response,
                   b_pages, b_page, b_indices, b_calls, searcher>>

\* lines 91-101: the request is read and the similarities computed from the globals
SearchScore ==
    /\ Running /\ spc = "idle" /\ response = NoResponse
    /\ \E data \in ConcRequests :
         /\ request' = Call("/api/search", data)
         /\ IF early_reply(data, vectorizer, tfidf_matrix) # NoResponse
            THEN /\ response' = early_reply(data, vectorizer, tfidf_matrix)
                 /\ UNCHANGED searcher
            ELSE /\ s_sims' \in cosine_similarities(vectorizer, tfidf_matrix, QueryOf(data))
                 /\ s_data' = data
                 /\ spc' = "l103"
                 /\ UNCHANGED response
    /\ HandlerWrites
    /\ UNCHANGED <<site, built, builder>>

\* lines 103-144: the ranking over doc_page_index and pages_data as they are now
SearchRank ==
    /\ Running /\ spc = "l103"
    /\ response' \in rank(QueryOf(s_data), TopKOf(s_data).value, doc_page_index, s_sims,
                          pages_data)
    /\ spc' = "idle" /\ s_data' = NoRequest.data /\ s_sims' = <<>>
    /\ HandlerWrites
    /\ UNCHANGED <<site, built, request, builder>>

\* the response is sent
SendConc ==
    /\ spc = "idle" /\ response # NoResponse
    /\ request' = NoRequest
    /\ response' = NoResponse
    /\ UNCHANGED <<shared, site, built, builder, searcher>>

NextConc ==
    \/ BuildLine50 \/ BuildLine51 \/ BuildDoc \/ BuildPage \/ BuildLine68 \/ BuildFit
    \/ BuildStore \/ SearchScore \/ SearchRank \/ SendConc

SpecConc == Init /\ [][NextConc]_vars

----------------------------------------------------------------------------
(* The request being answered *)

Searched == request.route = "/api/search" /\ response # NoResponse
Query == QueryOf(request.data)
TopK == TopKOf(request.data)
Succeeded == Searched /\ response.status = 200
InvalidRequest == response.status = 400
IndexUnavailable == response.status = 500 /\ response.error = INDEX_UNAVAILABLE

\* the document's entries of the response's results
ResultsOf(d) == {i \in 1..Len(response.results) : response.results[i].key = d}

\* the documents whose file the last build did not find
MissingDocs == {d \in DocSet : ~site[d].exists}

\* the similarity of the pno-th page of the document at place i of the index
RawScore(i, pno) == s_sims[doc_page_index[i].indices[pno] + 1]

\* the page numbers a result list returns
Returned(items) == {items[a].page_no : a \in 1..Len(items)}

----------------------------------------------------------------------------
(* C1: an index rebuild is one atomic swap: whatever the interleaving of a  *)
(* rebuild with a search, the similarities the search computed from the     *)
(* vectorizer and tfidf_matrix and the doc_page_index and pages_data it     *)
(* then ranks are those of one and the same completed build.                *)

\* the index, the pages and the similarities are those of the build b, which returned
SnapshotOf(b, query, sims, dpi, pd) ==
    /\ b.corpus.all_texts # <<>> /\ ~b.fit.raised
    /\ pd = b.corpus.pages_data
    /\ dpi = b.corpus.doc_page_index
    /\ sims \in Similarities(Analyze(query) \cap b.fit.vocabulary, b.fit.rows)

C1_AtomicSwap ==
    [][ (spc = "l103" /\ spc' = "idle")
          => \E b \in Indexes :
                SnapshotOf(b, QueryOf(s_data), s_sims, doc_page_index, pages_data) ]_vars

----------------------------------------------------------------------------
(* C2: a search with a non-empty query and a top_k of zero or less fails    *)
(* with InvalidRequest (status 400) and returns no result lists. Stated     *)
(* where an index is there to rank, so that no other error answers first.   *)

Indexed == built = "returned" /\ pages_data # <<>>

C2_NonPositiveTopKRejected ==
    (Searched /\ Query # <<>> /\ ~TopK.raised /\ TopK.value <= 0 /\ Indexed)
        => (InvalidRequest /\ response.results = <<>>)

----------------------------------------------------------------------------
(* C3: in a successful search with a positive top_k, the result list of     *)
(* each document holds min(top_k, n) distinct pages of that document, n its *)
(* page count, in non-increasing order of score, each with the rounded      *)
(* similarity of its page, and no page left out has a higher similarity     *)
(* than a page returned.                                                    *)

TrueTopK(i) ==
    LET items == response.results[i].items
        n == Len(doc_page_index[i].indices)
    IN /\ response.results[i].key = doc_page_index[i].key
       /\ Len(items) = Min(TopK.value, n)
       /\ \A a \in 1..Len(items) :
            /\ items[a].page_no \in 1..n
            /\ items[a].score = Round4(RawScore(i, items[a].page_no))
       /\ \A a, c \in 1..Len(items) : a < c =>
            /\ items[a].page_no # items[c].page_no
            /\ items[a].score >= items[c].score
       /\ \A a \in 1..Len(items) : \A pno \in (1..n) \ Returned(items) :
            RawScore(i, pno) <= RawScore(i, items[a].page_no)

C3_TrueTopK ==
    (Succeeded /\ TopK.value >= 1) =>
        /\ Len(response.results) = Len(doc_page_index)
        /\ \A i \in 1..Len(response.results) : TrueTopK(i)

\* a two-page document of which top_k = 1 returns the second, better page
C3_Witness ==
    /\ Succeeded /\ TopK.value = 1
    /\ \E i \in 1..Len(response.results) :
         /\ Len(doc_page_index[i].indices) = 2
         /\ Returned(response.results[i].items) = {2}
         /\ RawScore(i, 1) < RawScore(i, 2)

----------------------------------------------------------------------------
(* C4: in a result list, of two pages with equal scores the one with the    *)
(* lower page number comes first, and a page left out whose score equals    *)
(* that of a returned page has a higher page number than it.                *)

TiesInCorpusOrder(i) ==
    LET items == response.results[i].items
        n == Len(doc_page_index[i].indices)
    IN /\ \A a, c \in 1..Len(items) :
            (a < c /\ items[a].score = items[c].score) => items[a].page_no < items[c].page_no
       /\ \A a \in 1..Len(items) : \A pno \in (1..n) \ Returned(items) :
            Round4(RawScore(i, pno)) = items[a].score => items[a].page_no < pno

C4_TiesInCorpusOrder ==
    (Succeeded /\ TopK.value >= 1) => \A i \in 1..Len(response.results) : TiesInCorpusOrder(i)

----------------------------------------------------------------------------
(* C5: a search with a non-empty query fails with IndexUnavailable (status  *)
(* 500, "Index not built or PDFs missing.") when build_index never ran and  *)
(* when it ran over an empty corpus. Stated for the requests whose top_k is *)
(* a positive integer.                                                      *)

ValidTopK == ~TopK.raised /\ TopK.value >= 1

NoIndex == built = "never" \/ (built = "returned" /\ pages_data = <<>>)

C5_NoIndexIsIndexUnavailable ==
    (Searched /\ Query # <<>> /\ ValidTopK /\ NoIndex)
        => (IndexUnavailable /\ response.results = <<>>)

----------------------------------------------------------------------------
(* C6, as claimed: after a build that returned, a search with a non-empty   *)
(* query and a positive top_k succeeds, and every document whose source was *)
(* missing has an empty result list, whichever other sources are missing.   *)

EmptyListFor(d) ==
    /\ ResultsOf(d) # {}
    /\ \A i \in ResultsOf(d) : response.results[i].items = <<>>

C6_MissingDocNeverFails ==
    (Searched /\ Query # <<>> /\ ValidTopK /\ built = "returned")
        => \A d \in MissingDocs : Succeeded /\ EmptyListFor(d)

(* C6, amended: after a build that returned, a search with a non-empty      *)
(* query and a positive top_k succeeds when the build indexed a page, and   *)
(* every document whose source was missing then has an empty result list;   *)
(* when the build indexed no page the search fails with IndexUnavailable.   *)

C6_MissingDocEmptyList ==
    (Searched /\ Query # <<>> /\ ValidTopK /\ built = "returned")
        => IF pages_data # <<>>
           THEN Succeeded /\ \A d \in MissingDocs : EmptyListFor(d)
           ELSE IndexUnavailable /\ response.results = <<>>

\* a search succeeds over an index with a missing document and a document with pages
C6_Witness ==
    /\ Succeeded /\ Query # <<>> /\ ValidTopK /\ built = "returned"
    /\ MissingDocs # {} /\ pages_data # <<>>
    /\ \E i \in 1..Len(response.results) : response.results[i].items # <<>>

----------------------------------------------------------------------------
(* C7: a search whose query is empty or only whitespace fails with          *)
(* InvalidRequest (status 400, "empty query"), whatever the index.          *)

C7_EmptyQueryRejected ==
    (Searched /\ Query = <<>>)
        => (InvalidRequest /\ response.error = EMPTY_QUERY /\ response.results = <<>>)

----------------------------------------------------------------------------
(* C8: after a build_index call that returned, every position of pages_data *)
(* is in the position list of exactly one document, the one its entry       *)
(* names; each list is increasing and follows the page numbers 1, 2, ...;   *)
(* every configured document has one entry, in the order of PDF_FILES; and  *)
(* the corpus is that of the files the last build found: a missing document *)
(* has an empty list, and nothing of an earlier build remains.              *)

Partition ==
    /\ \A p \in 0..(Len(pages_data) - 1) :
         /\ \E i \in 1..Len(doc_page_index) : p \in Range(doc_page_index[i].indices)
         /\ \A i \in 1..Len(doc_page_index) :
              p \in Range(doc_page_index[i].indices)
                  => doc_page_index[i].key = pages_data[p + 1].doc_key
    /\ \A i \in 1..Len(doc_page_index) :
         LET indices == doc_page_index[i].indices
         IN /\ \A j \in 1..Len(indices) :
                 /\ indices[j] \in 0..(Len(pages_data) - 1)
                 /\ pages_data[indices[j] + 1].page_no = j
                 /\ j > 1 => indices[j - 1] < indices[j]

EveryDocument ==
    /\ Len(doc_page_index) = Len(DocKeys)
    /\ \A i \in 1..Len(DocKeys) : doc_page_index[i].key = DocKeys[i]

OfLastBuild ==
    /\ Len(pages_data) = SumPages(site, Len(DocKeys))
    /\ \A i \in 1..Len(doc_page_index) :
         LET d == doc_page_index[i].key
             indices == doc_page_index[i].indices
         IN /\ Len(indices) = Len(site[d].pages)
            /\ \A j \in 1..Len(indices) :
                 pages_data[indices[j] + 1].text = PageText(site[d].pages[j])

C8_CorpusPartition ==
    built = "returned" => (Partition /\ EveryDocument /\ OfLastBuild)

\* a build returned over a site with a missing document and two documents with pages
C8_Witness ==
    /\ built = "returned"
    /\ MissingDocs # {}
    /\ Cardinality({i \in 1..Len(doc_page_index) : doc_page_index[i].indices # <<>>}) = 2

----------------------------------------------------------------------------
(* C9: no request changes the shared state: a step that answers a request   *)
(* (api_search, whether it succeeds or fails, and health) leaves pages_data,*)
(* doc_page_index, the vectorizer and tfidf_matrix as they were, and a step *)
(* that changes one of them is a build_index call, which answers nothing.   *)

C9_QueriesReadOnly ==
    [][ /\ (response' # response /\ response' # NoResponse) => UNCHANGED shared
        /\ (shared' # shared) => (response = NoResponse /\ UNCHANGED <<request, response>>)
      ]_vars

\* a search has been answered from a built index
C9_Witness == Succeeded /\ pages_data # <<>> /\ tfidf_matrix.kind = "matrix"

----------------------------------------------------------------------------
(* C10: in the summary of a successful search, the line that ranks the      *)
(* documents by overlap names every document of the response, those with no *)
(* pages or no excerpt text included. Stated for a positive top_k.          *)

StrongestLines == {i \in 1..Len(response.summary) : response.summary[i].kind = "strongest"}

C10_EveryDocumentRanked ==
    (Succeeded /\ TopK.value >= 1) => \A i \in StrongestLines :
        Range(response.summary[i].docs) = {response.results[j].key : j \in 1..Len(response.results)}

====
